---- MODULE Spec2Model ----
(***************************************************************************)
(* Model of src/qualifier/qualifier.py: valid_input, rearrange_tiles,      *)
(* split_into_tiles and combine_tiles.  Images are modelled as records     *)
(* with a size, a colour mode and a pixel map; Python's integer `%` and    *)
(* `//` (floor semantics, ZeroDivisionError on a zero divisor), range(),   *)
(* list indexing and the `with` block's release of the image handle are    *)
(* modelled by what they do.                                               *)
(***************************************************************************)
EXTENDS Integers, Sequences, FiniteSets, TLC

\* ---- bounds of the checked instance ----
MaxDim == 4        \* image width and height range over 1..MaxDim
MaxTile == 2       \* tile_size components range over -MaxNegTile..MaxTile
MaxNegTile == 1
MaxLen == 4        \* len(ordering) ranges over 0..MaxLen
MaxVal == 4        \* ordering values range over 0..MaxVal (valid_input calls)
MaxBadLen == 3     \* rearrange_tiles runs: orderings that are no permutation
MaxBadVal == 2     \* have length 0..MaxBadLen and values 0..MaxBadVal

\* Unbound locals, absent files and "no exception" are values of the same
\* shape as the values they stand in for.
None == "None"
NoSize == << >>
NoImage == [size |-> <<0, 0>>, mode |-> "None", px |-> [p \in {} |-> 0]]
NoFile == [size |-> <<0, 0>>, mode |-> "NoFile", px |-> [p \in {} |-> 0]]
Partial == [size |-> <<0, 0>>, mode |-> "Partial", px |-> [p \in {} |-> 0]]
NoError == [kind |-> "None", msg |-> ""]

\* All sequences over S of length 0..n
SeqsUpTo(S, n) == UNION {[1..k -> S] : k \in 0..n}

\* All orderings of length n that use each of 0..n-1 once
Perms(n) ==
    {s \in [1..n -> 0..(n - 1)] : \A i, j \in 1..n : i # j => s[i] # s[j]}

\* The orderings rearrange_tiles is run with: every permutation of every
\* length up to MaxLen, and every short sequence, permutation or not
Orderings ==
    UNION {Perms(n) : n \in 0..MaxLen} \cup SeqsUpTo(0..MaxBadVal, MaxBadLen)

\* ---- Python integer arithmetic (divisor # 0; a zero divisor raises) ----
\* a % b: the result takes the sign of the divisor
PyMod(a, b) ==
    IF b > 0 THEN a % b
    ELSE LET r == (0 - a) % (0 - b) IN 0 - r

\* a // b: floor division
PyFloorDiv(a, b) ==
    IF b > 0 THEN (a - PyMod(a, b)) \div b
    ELSE ((0 - a) - ((0 - a) % (0 - b))) \div (0 - b)

\* list(range(start, stop, step)) for step # 0
PyRange(start, stop, step) ==
    IF step > 0 /\ stop > start
    THEN [k \in 1..(((stop - start) + step - 1) \div step) |-> start + (k - 1) * step]
    ELSE IF step < 0 /\ stop < start
    THEN [k \in 1..(((start - stop) + (0 - step) - 1) \div (0 - step)) |-> start + (k - 1) * step]
    ELSE << >>

\* set(seq)
PySet(seq) == {seq[i] : i \in DOMAIN seq}

\* ---- images (PIL.Image) ----
Pixels(w, h) == (0..(w - 1)) \X (0..(h - 1))

\* Image.new(mode, size): a black image
ImageNew(mode, size) ==
    [size |-> size, mode |-> mode,
     px |-> [p \in Pixels(size[1], size[2]) |-> 0]]

\* img.crop((x0, y0, x1, y1)); pixels outside the source are black
crop(img, box) ==
    LET w == box[3] - box[1]
        h == box[4] - box[2]
    IN [size |-> <<w, h>>, mode |-> img.mode,
        px |-> [p \in Pixels(w, h) |->
                  LET q == <<box[1] + p[1], box[2] + p[2]>>
                  IN IF q \in DOMAIN img.px THEN img.px[q] ELSE 0]]

\* img.paste(tile, (x, y)); the pasted region is clipped to img
paste(img, tile, pos) ==
    [img EXCEPT !.px =
        [p \in DOMAIN img.px |->
            LET q == <<p[1] - pos[1], p[2] - pos[2]>>
            IN IF q \in DOMAIN tile.px THEN tile.px[q] ELSE img.px[p]]]

\* The image files a run can be pointed at: kind 1 is an RGB image whose
\* pixels are pairwise distinct, kind 2 a grayscale image with a pattern.
SrcKinds == {1, 2}
SourceImage(w, h, kind) ==
    [size |-> <<w, h>>,
     mode |-> IF kind = 1 THEN "RGB" ELSE "L",
     px |-> [p \in Pixels(w, h) |->
               IF kind = 1 THEN 1 + p[2] * w + p[1]
               ELSE 1 + ((p[1] + 2 * p[2]) % 3)]]
OldImage == ImageNew("L", <<1, 1>>)

\* ---- valid_input ----
\* variant: the ordering's values are only required to lie among the tile
\* indices (subset instead of set equality)
valid_input_subset(image_size, tile_size, ordering) ==
    IF tile_size[1] = 0 THEN "ZeroDivisionError"
    ELSE IF PyMod(image_size[1], tile_size[1]) # 0 THEN "False"
    ELSE IF tile_size[2] = 0 THEN "ZeroDivisionError"
    ELSE IF PyMod(image_size[2], tile_size[2]) # 0 THEN "False"
    ELSE LET size_a == PyFloorDiv(image_size[1], tile_size[1])
             size_b == PyFloorDiv(image_size[2], tile_size[2])
         IN IF size_a * size_b # Len(ordering) THEN "False"
            ELSE IF ~(PySet(ordering) \subseteq 0..(Len(ordering) - 1)) THEN "False"
            ELSE "True"

\* variant: the tile count is not compared with len(ordering)
valid_input_nocount(image_size, tile_size, ordering) ==
    IF tile_size[1] = 0 THEN "ZeroDivisionError"
    ELSE IF PyMod(image_size[1], tile_size[1]) # 0 THEN "False"
    ELSE IF tile_size[2] = 0 THEN "ZeroDivisionError"
    ELSE IF PyMod(image_size[2], tile_size[2]) # 0 THEN "False"
    ELSE IF PySet(ordering) # 0..(Len(ordering) - 1) THEN "False"
    ELSE "True"

\* variant: only the width is checked for divisibility
valid_input_widthonly(image_size, tile_size, ordering) ==
    IF tile_size[1] = 0 THEN "ZeroDivisionError"
    ELSE IF PyMod(image_size[1], tile_size[1]) # 0 THEN "False"
    ELSE IF tile_size[2] = 0 THEN "ZeroDivisionError"
    ELSE LET size_a == PyFloorDiv(image_size[1], tile_size[1])
             size_b == PyFloorDiv(image_size[2], tile_size[2])
         IN IF size_a * size_b # Len(ordering) THEN "False"
            ELSE IF PySet(ordering) # 0..(Len(ordering) - 1) THEN "False"
            ELSE "True"

\* The value is "True" or "False" when the function returns, and
\* "ZeroDivisionError" when `%` raises, which `except AssertionError` does
\* not catch.
valid_input(image_size, tile_size, ordering) ==
    IF tile_size[1] = 0 THEN "ZeroDivisionError"
    ELSE IF PyMod(image_size[1], tile_size[1]) # 0 THEN "False"
    ELSE IF tile_size[2] = 0 THEN "ZeroDivisionError"
    ELSE IF PyMod(image_size[2], tile_size[2]) # 0 THEN "False"
    ELSE LET size_a == PyFloorDiv(image_size[1], tile_size[1])
             size_b == PyFloorDiv(image_size[2], tile_size[2])
         IN IF size_a * size_b # Len(ordering) THEN "False"
            ELSE IF PySet(ordering) # 0..(Len(ordering) - 1) THEN "False"
            ELSE "True"

\* ---- split_into_tiles / combine_tiles ----
\* variant: the tiles are enumerated column by column
split_into_tiles_colmajor(img, dx, dy) ==
    LET width == img.size[1]
        height == img.size[2]
        ys == PyRange(0, height, dy)
        xs == PyRange(0, width, dx)
    IN [k \in 1..(Len(ys) * Len(xs)) |->
          LET x == xs[((k - 1) \div Len(ys)) + 1]
              y == ys[((k - 1) % Len(ys)) + 1]
          IN crop(img, <<x, y, x + dx, y + dy>>)]

split_into_tiles(img, dx, dy) ==
    LET width == img.size[1]
        height == img.size[2]
        ys == PyRange(0, height, dy)
        xs == PyRange(0, width, dx)
    IN [k \in 1..(Len(ys) * Len(xs)) |->
          LET y == ys[((k - 1) \div Len(xs)) + 1]
              x == xs[((k - 1) % Len(xs)) + 1]
          IN crop(img, <<x, y, x + dx, y + dy>>)]

RECURSIVE PasteTiles(_, _, _, _, _, _)
\* the loop of combine_tiles from list index i (0-based) on
PasteTiles(img, tiles, i, width_count, dx, dy) ==
    IF i >= Len(tiles) THEN img
    ELSE LET x == (i % width_count) * dx
             y == (i \div width_count) * dy
         IN PasteTiles(paste(img, tiles[i + 1], <<x, y>>), tiles, i + 1,
                       width_count, dx, dy)

\* variant: the blank image is created with the counts swapped
combine_tiles_swapped(tiles, width_count, height_count, dx, dy, image_mode) ==
    PasteTiles(ImageNew(image_mode, <<dx * height_count, dy * width_count>>),
               tiles, 0, width_count, dx, dy)

combine_tiles(tiles, width_count, height_count, dx, dy, image_mode) ==
    PasteTiles(ImageNew(image_mode, <<dx * width_count, dy * height_count>>),
               tiles, 0, width_count, dx, dy)

\* ---- state ----
VARIABLES
    src,          \* the image stored at image_path
    out,          \* what is stored at out_path: NoFile, Partial or an image
    tile_size,    \* argument
    ordering,     \* argument
    pc,           \* position in rearrange_tiles / in the valid_input call
    img_open,     \* TRUE while the handle of `with Image.open(...)` is open
    image_size,   \* local of rearrange_tiles / argument of valid_input
    image_mode,
    valid,        \* outcome of the valid_input call, None before it
    tiles,
    sorted_tiles,
    new_img,
    err           \* the exception in flight or raised to the caller, None if none

vars == <<src, out, tile_size, ordering, pc, img_open, image_size, image_mode,
          valid, tiles, sorted_tiles, new_img, err>>

TileVals == (0 - MaxNegTile)..MaxTile
Dims == 1..MaxDim

Error(kind, msg) == [kind |-> kind, msg |-> msg]
InvalidMsg == "The tile size or ordering are not valid for the given image"

\* ---- rearrange_tiles ----
Init ==
    /\ \E w \in Dims, h \in Dims, k \in SrcKinds : src = SourceImage(w, h, k)
    /\ out \in {NoFile, OldImage}
    /\ tile_size \in TileVals \X TileVals
    /\ ordering \in Orderings
    /\ pc = "open"
    /\ img_open = FALSE
    /\ image_size = NoSize
    /\ image_mode = None
    /\ valid = None
    /\ tiles = << >>
    /\ sorted_tiles = << >>
    /\ new_img = NoImage
    /\ err = NoError

\* line 41: Image.open succeeds; lines 42-43
Open ==
    /\ pc = "open"
    /\ img_open' = TRUE
    /\ image_size' = src.size
    /\ image_mode' = src.mode
    /\ pc' = "validate"
    /\ UNCHANGED <<src, out, tile_size, ordering, valid, tiles, sorted_tiles,
                   new_img, err>>

\* line 41: Image.open raises (unreadable path); nothing was opened
OpenFail ==
    /\ pc = "open"
    /\ err' = Error("OSError", "")
    /\ pc' = "raised"
    /\ UNCHANGED <<src, out, tile_size, ordering, img_open, image_size,
                   image_mode, valid, tiles, sorted_tiles, new_img>>

\* variant: the ValueError is raised without its message
Validate_nomsg ==
    /\ pc = "validate"
    /\ valid' = valid_input(image_size, tile_size, ordering)
    /\ IF valid' = "True"
       THEN pc' = "split" /\ err' = err
       ELSE IF valid' = "False"
       THEN pc' = "exit" /\ err' = Error("ValueError", "")
       ELSE pc' = "exit" /\ err' = Error("ZeroDivisionError", "")
    /\ UNCHANGED <<src, out, tile_size, ordering, img_open, image_size,
                   image_mode, tiles, sorted_tiles, new_img>>

\* variant: the destination is opened for writing before the validation
Validate_touch ==
    /\ pc = "validate"
    /\ valid' = valid_input(image_size, tile_size, ordering)
    /\ out' = Partial
    /\ IF valid' = "True"
       THEN pc' = "split" /\ err' = err
       ELSE IF valid' = "False"
       THEN pc' = "exit" /\ err' = Error("ValueError", InvalidMsg)
       ELSE pc' = "exit" /\ err' = Error("ZeroDivisionError", "")
    /\ UNCHANGED <<src, tile_size, ordering, img_open, image_size,
                   image_mode, tiles, sorted_tiles, new_img>>

\* variant: the image is opened without a `with` block, so that the raise
\* leaves rearrange_tiles without closing it
Validate_nowith ==
    /\ pc = "validate"
    /\ valid' = valid_input(image_size, tile_size, ordering)
    /\ IF valid' = "True"
       THEN pc' = "split" /\ err' = err
       ELSE IF valid' = "False"
       THEN pc' = "raised" /\ err' = Error("ValueError", InvalidMsg)
       ELSE pc' = "raised" /\ err' = Error("ZeroDivisionError", "")
    /\ UNCHANGED <<src, out, tile_size, ordering, img_open, image_size,
                   image_mode, tiles, sorted_tiles, new_img>>

\* lines 44-47
Validate ==
    /\ pc = "validate"
    /\ valid' = valid_input(image_size, tile_size, ordering)
    /\ IF valid' = "True"
       THEN pc' = "split" /\ err' = err
       ELSE IF valid' = "False"
       THEN pc' = "exit" /\ err' = Error("ValueError", InvalidMsg)
       ELSE pc' = "exit" /\ err' = Error("ZeroDivisionError", "")
    /\ UNCHANGED <<src, out, tile_size, ordering, img_open, image_size,
                   image_mode, tiles, sorted_tiles, new_img>>

\* lines 49-50
Split ==
    /\ pc = "split"
    /\ tiles' = split_into_tiles(src, tile_size[1], tile_size[2])
    /\ pc' = "permute"
    /\ UNCHANGED <<src, out, tile_size, ordering, img_open, image_size,
                   image_mode, valid, sorted_tiles, new_img, err>>

\* variant: the permutation is applied the other way round
\* (sorted_tiles[ordering[i]] = tiles[i])
Permute_inverse ==
    /\ pc = "permute"
    /\ IF \E i \in DOMAIN ordering : ordering[i] >= Len(tiles)
       THEN /\ err' = Error("IndexError", "list index out of range")
            /\ pc' = "exit"
            /\ UNCHANGED sorted_tiles
       ELSE /\ sorted_tiles' = [j \in DOMAIN ordering |->
                                 tiles[CHOOSE i \in DOMAIN ordering : ordering[i] = j - 1]]
            /\ pc' = "combine"
            /\ UNCHANGED err
    /\ UNCHANGED <<src, out, tile_size, ordering, img_open, image_size,
                   image_mode, valid, tiles, new_img>>

\* line 51: [tiles[index] for index in ordering]
Permute ==
    /\ pc = "permute"
    /\ IF \E i \in DOMAIN ordering : ordering[i] >= Len(tiles)
       THEN /\ err' = Error("IndexError", "list index out of range")
            /\ pc' = "exit"
            /\ UNCHANGED sorted_tiles
       ELSE /\ sorted_tiles' = [i \in DOMAIN ordering |-> tiles[ordering[i] + 1]]
            /\ pc' = "combine"
            /\ UNCHANGED err
    /\ UNCHANGED <<src, out, tile_size, ordering, img_open, image_size,
                   image_mode, valid, tiles, new_img>>

\* lines 52-56
Combine ==
    /\ pc = "combine"
    /\ LET dx == tile_size[1]
           dy == tile_size[2]
           width_count == PyFloorDiv(image_size[1], dx)
           height_count == PyFloorDiv(image_size[2], dy)
       IN new_img' = combine_tiles(sorted_tiles, width_count, height_count,
                                   dx, dy, image_mode)
    /\ pc' = "save"
    /\ UNCHANGED <<src, out, tile_size, ordering, img_open, image_size,
                   image_mode, valid, tiles, sorted_tiles, err>>

\* line 57: new_img.save(out_path) succeeds
Save ==
    /\ pc = "save"
    /\ out' = new_img
    /\ pc' = "exit"
    /\ UNCHANGED <<src, tile_size, ordering, img_open, image_size, image_mode,
                   valid, tiles, sorted_tiles, new_img, err>>

\* line 57: new_img.save(out_path) raises (unwritable destination, or a
\* failure after the destination was opened for writing)
SaveFail ==
    /\ pc = "save"
    /\ out' \in {out, Partial}
    /\ err' = Error("OSError", "")
    /\ pc' = "exit"
    /\ UNCHANGED <<src, tile_size, ordering, img_open, image_size, image_mode,
                   valid, tiles, sorted_tiles, new_img>>

\* line 41: leaving the `with` block, normally or by an exception, closes
\* the image; an exception in flight then reaches the caller
Exit ==
    /\ pc = "exit"
    /\ img_open' = FALSE
    /\ pc' = IF err = NoError THEN "done" ELSE "raised"
    /\ UNCHANGED <<src, out, tile_size, ordering, image_size, image_mode,
                   valid, tiles, sorted_tiles, new_img, err>>

Next ==
    \/ Open
    \/ OpenFail
    \/ Validate
    \/ Split
    \/ Permute
    \/ Combine
    \/ Save
    \/ SaveFail
    \/ Exit

Spec == Init /\ [][Next]_vars

\* ---- valid_input called on its own ----
InitV ==
    /\ src = SourceImage(1, 1, 1)
    /\ out = NoFile
    /\ tile_size \in TileVals \X TileVals
    /\ ordering \in SeqsUpTo(0..MaxVal, MaxLen)
    /\ pc = "call"
    /\ img_open = FALSE
    /\ image_size \in Dims \X Dims
    /\ image_mode = None
    /\ valid = None
    /\ tiles = << >>
    /\ sorted_tiles = << >>
    /\ new_img = NoImage
    /\ err = NoError

CallValidInput ==
    /\ pc = "call"
    /\ valid' = valid_input(image_size, tile_size, ordering)
    /\ pc' = IF valid' \in {"True", "False"} THEN "returned" ELSE "raised"
    /\ err' = IF valid' \in {"True", "False"} THEN err
              ELSE Error("ZeroDivisionError", "")
    /\ UNCHANGED <<src, out, tile_size, ordering, img_open, image_size,
                   image_mode, tiles, sorted_tiles, new_img>>

NextV == CallValidInput

SpecV == InitV /\ [][NextV]_vars

\* ======================= properties =======================
\* exact division, stated without the program's arithmetic
Divides(b, a) == b # 0 /\ \E q \in (0 - a)..a : q * b = a
Quot(a, b) == CHOOSE q \in (0 - a)..a : q * b = a
IsPermutation(s) ==
    \A v \in 0..(Len(s) - 1) : Cardinality({i \in DOMAIN s : s[i] = v}) = 1
Identity(n) == [i \in 1..n |-> i - 1]
Positive(ts) == ts[1] > 0 /\ ts[2] > 0

\* C1: when rearrange_tiles has returned, the image at out_path has at grid
\* cell i (offset ((i mod width_count) * tile_width, (i div width_count) *
\* tile_height)) exactly the pixels of the input tile with row-major index
\* ordering[i]; an accepted input with positive tile sizes never ends in an
\* error other than a failing save.
C1_TilesPlaced ==
    /\ pc = "done" =>
         LET tw == tile_size[1]
             th == tile_size[2]
             wc == Quot(src.size[1], tw)
         IN \A i \in 0..(Len(ordering) - 1) :
              \A a \in 0..(tw - 1), b \in 0..(th - 1) :
                 LET o == <<(i % wc) * tw + a, (i \div wc) * th + b>>
                     j == ordering[i + 1]
                     s == <<(j % wc) * tw + a, (j \div wc) * th + b>>
                 IN /\ o \in DOMAIN out.px
                    /\ s \in DOMAIN src.px
                    /\ out.px[o] = src.px[s]
    /\ (pc = "raised" /\ valid = "True" /\ Positive(tile_size)) => err.kind = "OSError"

C1_Witness ==
    /\ pc = "done"
    /\ src = SourceImage(4, 4, 1)
    /\ tile_size = <<2, 2>>
    /\ ordering = <<3, 2, 1, 0>>
    /\ out.px[<<0, 0>>] = src.px[<<2, 2>>]
    /\ out.px[<<3, 1>>] = src.px[<<1, 3>>]
    /\ out.px[<<2, 2>>] = src.px[<<0, 0>>]

\* C2: valid_input never raises: every call returns a boolean, and a zero
\* tile width or height gives false.
C2_NeverRaises ==
    pc # "call" =>
        /\ valid \in {"True", "False"}
        /\ (tile_size[1] = 0 \/ tile_size[2] = 0) => valid = "False"

\* C3 (as stated): whenever valid_input returned false, rearrange_tiles
\* fails with an error of kind InvalidArrangement carrying the fixed message.
C3_InvalidArrangement ==
    valid = "False" =>
        /\ pc \in {"exit", "raised"}
        /\ err = Error("InvalidArrangement", InvalidMsg)

\* C3 (amended): whenever valid_input returned false, rearrange_tiles fails
\* with a ValueError carrying exactly the fixed message.
C3_ValueError ==
    valid = "False" =>
        /\ pc \in {"exit", "raised"}
        /\ err = Error("ValueError", InvalidMsg)

C3_Witness ==
    /\ pc = "raised"
    /\ valid = "False"
    /\ src.size = <<3, 4>>
    /\ tile_size = <<2, 2>>
    /\ err.msg = InvalidMsg

\* C4: what is stored at out_path changes only in the save step, and the
\* save step is reached only after valid_input returned true; a failed
\* validation leaves the destination as it was.
C4_OutputUntouched ==
    [][out' # out => (pc = "save" /\ valid = "True")]_vars

C4_Witness ==
    /\ pc = "raised"
    /\ valid = "False"
    /\ out = OldImage

\* C5: when the tile divides both axes and len(ordering) is the tile count,
\* valid_input returns true iff ordering holds each of 0..N-1 exactly once.
C5_Permutation ==
    (/\ pc # "call"
     /\ Divides(tile_size[1], image_size[1])
     /\ Divides(tile_size[2], image_size[2])
     /\ Len(ordering) = Quot(image_size[1], tile_size[1])
                        * Quot(image_size[2], tile_size[2]))
    => (valid = "True" <=> IsPermutation(ordering))

C5_Witness ==
    /\ pc = "returned"
    /\ image_size = <<4, 4>>
    /\ tile_size = <<2, 2>>
    /\ ordering = <<0, 1, 1, 3>>
    /\ valid = "False"

\* C6: an ordering whose length differs from the tile count
\* (width / tile_width) * (height / tile_height) is rejected, even when it
\* is a permutation of 0..len(ordering)-1.
C6_Cardinality ==
    (/\ pc # "call"
     /\ tile_size[1] # 0
     /\ tile_size[2] # 0
     /\ Len(ordering) # PyFloorDiv(image_size[1], tile_size[1])
                        * PyFloorDiv(image_size[2], tile_size[2]))
    => valid = "False"

C6_Witness ==
    /\ pc = "returned"
    /\ image_size = <<4, 4>>
    /\ tile_size = <<2, 2>>
    /\ ordering = <<1, 0>>
    /\ valid = "False"

C8_SizeAndMode ==
    pc = "done" =>
        /\ out.size = src.size
        /\ out.mode = src.mode
        /\ DOMAIN out.px = Pixels(src.size[1], src.size[2])
        /\ out.size = <<tile_size[1] * Quot(src.size[1], tile_size[1]),
                        tile_size[2] * Quot(src.size[2], tile_size[2])>>

C8_Witness ==
    /\ pc = "done"
    /\ src = SourceImage(4, 2, 2)
    /\ tile_size = <<2, 1>>
    /\ out.size = <<4, 2>>
    /\ out.mode = "L"

\* C9: with the identity ordering the written image is pixel for pixel the
\* input image.
C9_Identity ==
    (pc = "done" /\ ordering = Identity(Len(ordering))) => out = src

C9_Witness ==
    /\ pc = "done"
    /\ src = SourceImage(4, 2, 1)
    /\ tile_size = <<2, 1>>
    /\ ordering = <<0, 1, 2, 3>>
    /\ out = src

\* C10: when rearrange_tiles has returned or its error has reached the
\* caller, the source image handle is closed.
C10_HandleReleased ==
    pc \in {"done", "raised"} => ~img_open

C10_Witness ==
    /\ pc = "raised"
    /\ valid = "False"
    /\ image_size = src.size
    /\ ~img_open

====
